---- MODULE Spec2Model ----
(***************************************************************************)
(* Model of the Gradient pass of nnvm (src/pass/gradient.cc): reverse-mode *)
(* differentiation as a graph-to-graph transformation.                     *)
(*                                                                         *)
(* The heap `nodes` maps node identities to node records.  A node identity *)
(* is a pair <<owner, k>>: owner 0 is the source graph, owner r > 0 is the *)
(* k-th node created with Node::Create() by invocation r of the pass.      *)
(* Every per-invocation variable is a function of the invocation r.        *)
(***************************************************************************)
EXTENDS Integers, Sequences, FiniteSets, TLC

VARIABLES
  nodes,         \* the heap: node identity -> Node (source graph and created nodes)
  attrs,         \* src.attrs: the attribute bundle handed to the pass
  mirror_fun,    \* per run: the grad_mirror_fun attribute ("none" when absent)
  pc,            \* per run: position in Gradient
  idx,           \* per run: cursor of the loop the run is in
  topo_order,    \* per run: std::vector<NodePtr> topo_order
  output_grads,  \* per run: unordered_map<Node*, vector<GradEntry>>
  mirror_map,    \* per run: unordered_map<Node*, NodePtr>
  outputs,       \* per run: ret.outputs
  err,           \* per run: why the run failed ("" while it has not)
  fgrad_calls,   \* per run: log of the gradient-function invocations
  agg_calls,     \* per run: log of the aggregator invocations
  mirror_calls,  \* per run: log of the mirror-predicate invocations
  ub             \* per run: whether the run has executed undefined behaviour

vars == <<nodes, attrs, mirror_fun, pc, idx, topo_order, output_grads,
          mirror_map, outputs, err, fgrad_calls, agg_calls, mirror_calls, ub>>

(***************************************************************************)
(* Bounds of the model.                                                    *)
(***************************************************************************)
MaxYs == 2       \* longest grad_ys / grad_ys_out_grad list
MaxXs == 2       \* longest grad_xs list
MaxPairLen == 1  \* longest grad_ys / grad_xs list when two invocations are compared

Runs == {1, 2}

(***************************************************************************)
(* Graph entry model: NodePtr, NodeEntry, Node.                            *)
(***************************************************************************)
Null == <<0, 0>>                      \* the null NodePtr
Wild == <<0, -1>>                     \* a NodePtr read from memory the program does not own

Src(i) == <<0, i>>                    \* the i-th node of the source graph

NodeEntry(n, i, v) == [node |-> n, index |-> i, version |-> v]

E(i, k) == NodeEntry(Src(i), k, 0)   \* output k of source node i

WildEntry == NodeEntry(Wild, 0, 0)

NoOp == "null"                        \* attrs.op == nullptr: a variable

Node(op, name, inputs, control_deps, num_outputs) ==
  [op |-> op, name |-> name, inputs |-> inputs,
   control_deps |-> control_deps, num_outputs |-> num_outputs]

Var(name) == Node(NoOp, name, <<>>, <<>>, 1)

\* Node::Create(): a node with empty attributes and no edges
CreatedNode == Node(NoOp, "", <<>>, <<>>, 1)

is_variable(h, n) == h[n].op = NoOp

Range(s) == {s[i] : i \in 1..Len(s)}

EmptyMap == [n \in {} |-> n]         \* an empty unordered_map

\* the next identity Node::Create() hands to run r, given heap h
Fresh(h, r) == <<r, Cardinality({id \in DOMAIN h : id[1] = r}) + 1>>

(***************************************************************************)
(* The source graphs the pass is run on.                                   *)
(***************************************************************************)
\* diamond x -> f, g -> y; g has a control dependency on c; z feeds nothing
Diamond ==
  (Src(1) :> Var("x")) @@ (Src(2) :> Var("z")) @@ (Src(3) :> Var("c")) @@
  (Src(4) :> Node("f", "f", <<E(1, 0)>>, <<>>, 1)) @@
  (Src(5) :> Node("g", "g", <<E(1, 0)>>, <<Src(3)>>, 1)) @@
  (Src(6) :> Node("add", "y", <<E(4, 0), E(5, 0)>>, <<>>, 1)) @@
  (Src(7) :> Var("og1")) @@ (Src(8) :> Var("og2")) @@ (Src(9) :> Var("og3"))

\* a node with two outputs, and an operator that registers no gradient
Split ==
  (Src(1) :> Var("x")) @@
  (Src(2) :> Node("split", "s", <<E(1, 0)>>, <<>>, 2)) @@
  (Src(3) :> Node("add", "y", <<E(2, 0), E(2, 1)>>, <<>>, 1)) @@
  (Src(4) :> Node("nograd", "w", <<E(1, 0)>>, <<>>, 1)) @@
  (Src(5) :> Node("add", "v", <<E(3, 0), E(4, 0)>>, <<>>, 1)) @@
  (Src(7) :> Var("og1")) @@ (Src(8) :> Var("og2")) @@ (Src(9) :> Var("og3"))

\* operators whose gradient functions return too few / too many entries
Lengths ==
  (Src(1) :> Var("x")) @@ (Src(2) :> Var("z")) @@
  (Src(3) :> Node("short", "a", <<E(1, 0), E(2, 0)>>, <<>>, 1)) @@
  (Src(4) :> Node("long", "b", <<E(1, 0)>>, <<>>, 1)) @@
  (Src(5) :> Node("add", "y", <<E(3, 0), E(4, 0)>>, <<>>, 1)) @@
  (Src(7) :> Var("og1")) @@ (Src(8) :> Var("og2")) @@ (Src(9) :> Var("og3"))

\* the chain x -> f -> y
Chain ==
  (Src(1) :> Var("x")) @@
  (Src(2) :> Node("f", "y", <<E(1, 0)>>, <<>>, 1)) @@
  (Src(7) :> Var("og1")) @@ (Src(8) :> Var("og2")) @@ (Src(9) :> Var("og3"))

Graphs == {Diamond, Split, Lengths, Chain}

\* the entries a caller may name in grad_ys and in grad_xs, per graph
YCand(g) ==
  IF g = Diamond THEN {E(6, 0), E(4, 0)}
  ELSE IF g = Split THEN {E(3, 0), E(5, 0), E(2, 1)}
  ELSE IF g = Chain THEN {E(2, 0)}
  ELSE {E(3, 0), E(4, 0), E(5, 0)}

XCand(g) ==
  IF g = Diamond THEN {E(1, 0), E(2, 0), E(4, 0)}
  ELSE IF g = Split THEN {E(1, 0), E(2, 0)}
  ELSE IF g = Chain THEN {E(1, 0)}
  ELSE {E(1, 0), E(2, 0)}

\* the seed gradients: grad_ys_out_grad[i] is the i-th seed variable
Seed(i) == E(6 + i, 0)

SeqsUpTo(S, n) == UNION {[1..k -> S] : k \in 0..n}

(***************************************************************************)
(* DFSVisit(heads, fvisit): post-order depth-first visit from the heads,   *)
(* children being the nodes of the inputs, then the control dependencies.  *)
(***************************************************************************)
Children(h, n) == [i \in 1..Len(h[n].inputs) |-> h[n].inputs[i].node] \o h[n].control_deps

RECURSIVE PostOrder(_, _, _)
RECURSIVE PostOrderAll(_, _, _)
PostOrder(h, n, acc) ==
  IF n \in Range(acc) THEN acc
  ELSE Append(PostOrderAll(h, Children(h, n), acc), n)

PostOrderAll(h, s, acc) ==
  IF s = <<>> THEN acc
  ELSE PostOrderAll(h, Tail(s), PostOrder(h, Head(s), acc))

DFSVisit(h, heads) == PostOrderAll(h, [i \in 1..Len(heads) |-> heads[i].node], <<>>)

(***************************************************************************)
(* Moves.  A NodeEntry that was moved from keeps index and version and has *)
(* a null node; a vector that was moved from is empty.                     *)
(***************************************************************************)
MovedFrom(e) == [e EXCEPT !.node = Null]

MovedFromVector(v) == <<>>

\* an aggregator without the shortcut for a single partial
DefaultAggregateAlwaysSum(h, r, v) ==
  IF Len(v) = 0 THEN
    LET zero_node == Fresh(h, r) IN
    [ret |-> NodeEntry(zero_node, 0, 0),
     heap |-> h @@ (zero_node :> [Node(NoOp, "", <<>>, <<>>, 1) EXCEPT !.op = "__zero__"]),
     v |-> v]
  ELSE
    LET sum_node == Fresh(h, r) IN
    [ret |-> NodeEntry(sum_node, 0, 0),
     heap |-> h @@ (sum_node :> [Node(NoOp, "", <<>>, <<>>, 1) EXCEPT
                                   !.op = "__ewise_sum__", !.inputs = v]),
     v |-> <<>>]

(***************************************************************************)
(* DefaultAggregateGradient(std::vector<NodeEntry>&& v) on heap h, run r.  *)
(* Result: the entry returned, the heap, and what is left in v.            *)
(***************************************************************************)
DefaultAggregateGradient(h, r, v) ==
  IF Len(v) = 1 THEN
    [ret |-> v[1], heap |-> h, v |-> <<MovedFrom(v[1])>>]
  ELSE IF Len(v) = 0 THEN
    LET zero_node == Fresh(h, r) IN
    [ret |-> NodeEntry(zero_node, 0, 0),
     heap |-> h @@ (zero_node :> [CreatedNode EXCEPT !.op = "__zero__"]),
     v |-> v]
  ELSE
    LET sum_node == Fresh(h, r) IN
    [ret |-> NodeEntry(sum_node, 0, 0),
     heap |-> h @@ (sum_node :> [CreatedNode EXCEPT !.op = "__ewise_sum__", !.inputs = v]),
     v |-> MovedFromVector(v)]

\* struct GradEntry, as default-constructed
GradEntry == [sum |-> NodeEntry(Null, 0, 0), grads |-> <<>>]

(***************************************************************************)
(* The operator registry: Op::GetAttr<FGradient>("FGradient").             *)
(***************************************************************************)
RegisteredOps == {"f", "g", "add", "split", "short", "long"}

\* how many entries the gradient function registered for op returns for a
\* node with n inputs: "short" and "long" break the one-per-input contract
GradLen(op, n) ==
  IF op = "short" THEN n - 1 ELSE IF op = "long" THEN n + 1 ELSE n

\* a gradient function: called with the (possibly mirrored) forward node and
\* the aggregated output gradients, it creates one backward node and returns
\* references to its outputs
FGradient(h, r, fwd, out_grads) ==
  LET gnode == Fresh(h, r)
      k == GradLen(h[fwd].op, Len(h[fwd].inputs))
  IN [ret |-> [i \in 1..k |-> NodeEntry(gnode, i - 1, 0)],
      heap |-> h @@ (gnode :> Node("_backward", h[fwd].name, out_grads, <<fwd>>, k))]

\* the mirror predicates a caller may supply as grad_mirror_fun
MirrorFuns == {"none", "never", "ops"}

mirror_fun_call(h, m, n) ==
  IF m = "ops" THEN ~is_variable(h, n) ELSE FALSE

(***************************************************************************)
(* Initial states: a source graph and an attribute bundle.                 *)
(***************************************************************************)
Required == {"grad_ys", "grad_ys_out_grad", "grad_xs"}

Bundle(keys, ys, k, xs) ==
  [keys |-> keys,
   grad_ys |-> IF "grad_ys" \in keys THEN ys ELSE <<>>,
   grad_ys_out_grad |-> IF "grad_ys_out_grad" \in keys THEN [i \in 1..k |-> Seed(i)] ELSE <<>>,
   grad_xs |-> IF "grad_xs" \in keys THEN xs ELSE <<>>]

InitRun ==
  /\ pc = [r \in Runs |-> "start"]
  /\ idx = [r \in Runs |-> 0]
  /\ topo_order = [r \in Runs |-> <<>>]
  /\ output_grads = [r \in Runs |-> EmptyMap]
  /\ mirror_map = [r \in Runs |-> EmptyMap]
  /\ outputs = [r \in Runs |-> <<>>]
  /\ err = [r \in Runs |-> ""]
  /\ fgrad_calls = [r \in Runs |-> <<>>]
  /\ agg_calls = [r \in Runs |-> <<>>]
  /\ mirror_calls = [r \in Runs |-> <<>>]
  /\ ub = [r \in Runs |-> FALSE]

Init ==
  /\ nodes \in Graphs
  /\ \E keys \in SUBSET Required, ys \in SeqsUpTo(YCand(nodes), MaxYs),
        k \in 0..MaxYs, xs \in SeqsUpTo(XCand(nodes), MaxXs) :
       attrs = Bundle(keys, ys, k, xs)
  /\ \E m \in MirrorFuns : mirror_fun = [r \in Runs |-> m]
  /\ InitRun

(***************************************************************************)
(* Gradient(Graph src), one action per check or loop iteration.            *)
(***************************************************************************)
ys == attrs.grad_ys
ys_out_grad == attrs.grad_ys_out_grad
xs == attrs.grad_xs

Fail(r, why) ==
  /\ pc' = [pc EXCEPT ![r] = "failed"]
  /\ err' = [err EXCEPT ![r] = why]

\* lines 43-63: the three CHECK_NE on the attributes, then reading them
CheckAttrs(r) ==
  /\ pc[r] = "start"
  /\ IF "grad_ys" \notin attrs.keys THEN Fail(r, "grad_ys")
     ELSE IF "grad_ys_out_grad" \notin attrs.keys THEN Fail(r, "grad_ys_out_grad")
     ELSE IF "grad_xs" \notin attrs.keys THEN Fail(r, "grad_xs")
     ELSE pc' = [pc EXCEPT ![r] = "dfs"] /\ UNCHANGED err
  /\ UNCHANGED <<nodes, attrs, mirror_fun, idx, topo_order, output_grads, mirror_map,
                 outputs, fgrad_calls, agg_calls, mirror_calls, ub>>

\* a vector resized to one entry per input of the node
ResizedToInputs(h, node) == [k \in 1..Len(h[node].inputs) |-> GradEntry]

\* line 70: resize(node->num_outputs()) of a vector the map has just created
Resized(h, node) == [k \in 1..h[node].num_outputs |-> GradEntry]

\* lines 68-73: the visitor callback, for the next node DFSVisit reaches
VisitNode(r) ==
  /\ pc[r] = "dfs"
  /\ LET order == DFSVisit(nodes, ys) IN
     /\ Len(topo_order[r]) < Len(order)
     /\ LET node == order[Len(topo_order[r]) + 1] IN
        /\ output_grads' = [output_grads EXCEPT ![r] =
             IF node \notin DOMAIN @
             THEN @ @@ (node :> Resized(nodes, node))
             ELSE @]
        /\ topo_order' = [topo_order EXCEPT ![r] = Append(@, node)]
  /\ UNCHANGED <<nodes, attrs, mirror_fun, pc, idx, mirror_map, outputs, err,
                 fgrad_calls, agg_calls, mirror_calls, ub>>

\* the seed loop entered without the size check
CheckSizesUnchecked(r) ==
  /\ pc[r] = "dfs"
  /\ Len(topo_order[r]) = Len(DFSVisit(nodes, attrs.grad_ys))
  /\ pc' = [pc EXCEPT ![r] = "seed"]
  /\ idx' = [idx EXCEPT ![r] = 0]
  /\ UNCHANGED <<nodes, attrs, mirror_fun, topo_order, output_grads, mirror_map,
                 outputs, err, fgrad_calls, agg_calls, mirror_calls, ub>>

\* line 75: CHECK_EQ(ys.size(), ys_out_grad.size()), once DFSVisit has returned
CheckSizes(r) ==
  /\ pc[r] = "dfs"
  /\ Len(topo_order[r]) = Len(DFSVisit(nodes, ys))
  /\ IF Len(ys) # Len(ys_out_grad) THEN Fail(r, "ys.size() == ys_out_grad.size()")
     ELSE pc' = [pc EXCEPT ![r] = "seed"] /\ UNCHANGED err
  /\ idx' = [idx EXCEPT ![r] = 0]
  /\ UNCHANGED <<nodes, attrs, mirror_fun, topo_order, output_grads, mirror_map,
                 outputs, fgrad_calls, agg_calls, mirror_calls, ub>>

\* a seed pushed onto the pending list instead of replacing it
AssignedAppended(grads, g) == Append(grads, g)

\* line 77: grads = { ys_out_grad[i] }
Assigned(grads, g) == <<g>>

\* lines 76-78: one iteration of the seed loop
SeedStep(r) ==
  /\ pc[r] = "seed"
  /\ idx[r] < Len(ys)
  /\ LET i == idx[r] + 1 IN
     output_grads' = [output_grads EXCEPT
       ![r][ys[i].node][ys[i].index + 1].grads = Assigned(@, ys_out_grad[i])]
  /\ idx' = [idx EXCEPT ![r] = @ + 1]
  /\ UNCHANGED <<nodes, attrs, mirror_fun, pc, topo_order, mirror_map, outputs, err,
                 fgrad_calls, agg_calls, mirror_calls, ub>>

\* lines 81-82: after the seed loop, mirror_map is declared and mirror_fun tested
EnterMirror(r) ==
  /\ pc[r] = "seed"
  /\ idx[r] = Len(ys)
  /\ IF mirror_fun[r] # "none"
     THEN pc' = [pc EXCEPT ![r] = "mirror"] /\ idx' = [idx EXCEPT ![r] = 0]
     ELSE pc' = [pc EXCEPT ![r] = "backward"]
          /\ idx' = [idx EXCEPT ![r] = Len(topo_order[r])]
  /\ UNCHANGED <<nodes, attrs, mirror_fun, topo_order, output_grads, mirror_map,
                 outputs, err, fgrad_calls, agg_calls, mirror_calls, ub>>

\* the mirror branch writing through the original pointer instead of a copy
MirrorTargetAliased(n, new_node) == n

\* line 85: the object the mirror branch builds and rewrites
MirrorTarget(n, new_node) == new_node

\* an edge of the copy left pointing at the original producer
MirrorEntryKept(m, e) == e

\* lines 88-93: an edge of the copy, redirected through mirror_map
MirrorEntry(m, e) == [e EXCEPT !.node = m[e.node]]

\* lines 83-98: one iteration of the mirror loop
MirrorStep(r) ==
  /\ pc[r] = "mirror"
  /\ idx[r] < Len(topo_order[r])
  /\ LET n == topo_order[r][idx[r] + 1]
         m == mirror_map[r]
         new_node == Fresh(nodes, r)
         target == MirrorTarget(n, new_node)
         refs == Range(Children(nodes, n))
     IN
     /\ mirror_calls' = [mirror_calls EXCEPT ![r] = Append(@, n)]
     /\ IF mirror_fun_call(nodes, mirror_fun[r], n)
        THEN IF refs \subseteq DOMAIN m
             THEN /\ nodes' = [(nodes @@ (new_node :> CreatedNode)) EXCEPT ![target] =
                       [nodes[n] EXCEPT
                          !.name = @ \o "_mirror",
                          !.inputs = [i \in 1..Len(@) |-> MirrorEntry(m, @[i])],
                          !.control_deps = [i \in 1..Len(@) |-> m[@[i]]]]]
                  /\ mirror_map' = [mirror_map EXCEPT ![r] =
                       (n :> target) @@ @]
                  /\ idx' = [idx EXCEPT ![r] = @ + 1]
                  /\ UNCHANGED <<pc, err>>
             ELSE \* mirror_map.at throws std::out_of_range
                  /\ nodes' = nodes @@ (new_node :> [nodes[n] EXCEPT !.name = @ \o "_mirror"])
                  /\ Fail(r, "mirror_map.at")
                  /\ UNCHANGED <<mirror_map, idx>>
        ELSE /\ mirror_map' = [mirror_map EXCEPT ![r] = (n :> n) @@ @]
             /\ idx' = [idx EXCEPT ![r] = @ + 1]
             /\ UNCHANGED <<nodes, pc, err>>
  /\ UNCHANGED <<attrs, mirror_fun, topo_order, output_grads, outputs,
                 fgrad_calls, agg_calls, ub>>

\* a mirror loop that stops one node short of the end of topo_order
EnterBackwardEarly(r) ==
  /\ pc[r] = "mirror"
  /\ idx[r] >= Len(topo_order[r]) - 1
  /\ pc' = [pc EXCEPT ![r] = "backward"]
  /\ idx' = [idx EXCEPT ![r] = Len(topo_order[r])]
  /\ UNCHANGED <<nodes, attrs, mirror_fun, topo_order, output_grads, mirror_map,
                 outputs, err, fgrad_calls, agg_calls, mirror_calls, ub>>

\* lines 99-104: the mirror loop is over, the backward loop starts at rbegin()
EnterBackward(r) ==
  /\ pc[r] = "mirror"
  /\ idx[r] = Len(topo_order[r])
  /\ pc' = [pc EXCEPT ![r] = "backward"]
  /\ UNCHANGED <<nodes, attrs, mirror_fun, idx, topo_order, output_grads, mirror_map,
                 outputs, err, fgrad_calls, agg_calls, mirror_calls, ub>>

\* line 56: agg_fun = DefaultAggregateGradient
agg_fun(h, r, v) == DefaultAggregateGradient(h, r, v)

\* what an out-of-bounds read does: the run dies, or it goes on with garbage
UBOutcomes == {"crash", "garbage"}

\* lines 108-111: aggregate the output slots k, k+1, ... of node n in turn;
\* st carries the heap, the node's slots, the aggregator log and out_agg_grads
RECURSIVE AggSlots(_, _, _, _)
AggSlots(st, r, n, k) ==
  IF k > Len(st.slots) THEN st
  ELSE LET a == agg_fun(st.heap, r, st.slots[k].grads) IN
       AggSlots([heap |-> a.heap,
                 slots |-> [st.slots EXCEPT ![k] = [sum |-> a.ret, grads |-> a.v]],
                 log |-> Append(st.log, [slot |-> <<n, k - 1>>, by |-> "traversal",
                                         v |-> st.slots[k].grads, ret |-> a.ret,
                                         created |-> DOMAIN a.heap \ DOMAIN st.heap]),
                 out |-> Append(st.out, a.ret)],
                r, n, k + 1)

\* line 116: what emplace_back does to the pending list of a slot
Accumulate(grads, g) == Append(grads, g)

\* lines 114-117: scatter input_grads over the inputs j..upto of the node; a
\* position past the end of input_grads reads memory the list does not own
RECURSIVE Scatter(_, _, _, _, _)
Scatter(og, inputs, input_grads, j, upto) ==
  IF j > upto THEN og
  ELSE Scatter([og EXCEPT ![inputs[j].node][inputs[j].index + 1].grads =
                  Accumulate(@, IF j <= Len(input_grads) THEN input_grads[j] ELSE WildEntry)],
               inputs, input_grads, j + 1, upto)

\* a dispatch that hands the original node over although a mirror map exists
GradNodeOriginal(m, ptr) == ptr

\* line 113: the node handed to the gradient function
GradNode(m, ptr) == IF m = EmptyMap THEN ptr ELSE m[ptr]

\* a backward loop that also passes over operators without a gradient function
SkippedOrUnregistered(h, ptr) == is_variable(h, ptr) \/ h[ptr].op \notin RegisteredOps

\* a backward loop that also passes over the nodes no grad_xs entry is reachable from
SkippedUnlessFeedsXs(h, ptr) ==
  \/ is_variable(h, ptr)
  \/ \A i \in 1..Len(xs) : xs[i].node \notin Range(DFSVisit(h, <<NodeEntry(ptr, 0, 0)>>))

\* line 106: the nodes the backward loop passes over
Skipped(h, ptr) == is_variable(h, ptr)

\* a traversal that walks topo_order from begin() to end()
rit_forward(t, i) == t[Len(t) + 1 - i]

\* lines 104-105: *rit, with i elements of topo_order left to walk from rbegin()
rit(t, i) == t[i]

\* lines 104-118: one iteration of the backward loop, at *rit = topo_order[idx]
BackwardStep(r) ==
  /\ pc[r] = "backward"
  /\ idx[r] > 0
  /\ LET ptr == rit(topo_order[r], idx[r]) IN
     IF Skipped(nodes, ptr)
     THEN /\ idx' = [idx EXCEPT ![r] = @ - 1]
          /\ UNCHANGED <<nodes, pc, output_grads, err, fgrad_calls, agg_calls, ub>>
     ELSE
       LET st == AggSlots([heap |-> nodes, slots |-> output_grads[r][ptr],
                           log |-> agg_calls[r], out |-> <<>>], r, ptr, 1)
           og == [output_grads[r] EXCEPT ![ptr] = st.slots]
       IN
       /\ agg_calls' = [agg_calls EXCEPT ![r] = st.log]
       /\ IF nodes[ptr].op \notin RegisteredOps
          THEN \* grad_fun_map[ptr->op()] fails its CHECK
               /\ Fail(r, "FGradient")
               /\ nodes' = st.heap
               /\ output_grads' = [output_grads EXCEPT ![r] = og]
               /\ UNCHANGED <<idx, fgrad_calls, ub>>
          ELSE IF mirror_map[r] # EmptyMap /\ ptr \notin DOMAIN mirror_map[r]
          THEN /\ Fail(r, "mirror_map.at")
               /\ nodes' = st.heap
               /\ output_grads' = [output_grads EXCEPT ![r] = og]
               /\ UNCHANGED <<idx, fgrad_calls, ub>>
          ELSE
            LET fwd == GradNode(mirror_map[r], ptr)
                g == FGradient(st.heap, r, fwd, st.out)
                input_grads == g.ret
                inputs == nodes[ptr].inputs
                overrun == Len(input_grads) < Len(inputs)
            IN
            /\ nodes' = g.heap
            /\ fgrad_calls' = [fgrad_calls EXCEPT ![r] =
                 Append(@, [node |-> fwd, orig |-> ptr, out_grads |-> st.out,
                            ret |-> input_grads])]
            /\ ub' = [ub EXCEPT ![r] = @ \/ overrun]
            /\ \E ub_out \in UBOutcomes :
                 IF overrun /\ ub_out = "crash"
                 THEN /\ output_grads' = [output_grads EXCEPT ![r] =
                           Scatter(og, inputs, input_grads, 1, Len(input_grads))]
                      /\ Fail(r, "crash: read past the end of input_grads")
                      /\ UNCHANGED idx
                 ELSE /\ output_grads' = [output_grads EXCEPT ![r] =
                           Scatter(og, inputs, input_grads, 1, Len(inputs))]
                      /\ idx' = [idx EXCEPT ![r] = @ - 1]
                      /\ UNCHANGED <<pc, err>>
  /\ UNCHANGED <<attrs, mirror_fun, topo_order, mirror_map, outputs, mirror_calls>>

\* lines 119-121: the backward loop is over, ret is declared
EnterAssemble(r) ==
  /\ pc[r] = "backward"
  /\ idx[r] = 0
  /\ pc' = [pc EXCEPT ![r] = "assemble"]
  /\ UNCHANGED <<nodes, attrs, mirror_fun, idx, topo_order, output_grads, mirror_map,
                 outputs, err, fgrad_calls, agg_calls, mirror_calls, ub>>

\* line 128: what is left in entry.sum once it has been emplaced into ret.outputs
Emplaced(sum) == MovedFrom(sum)

\* lines 122-129: one iteration of the output loop, at e = xs[idx]
AssembleStep(r) ==
  /\ pc[r] = "assemble"
  /\ idx[r] < Len(xs)
  /\ LET e == xs[idx[r] + 1]
         og == output_grads[r]
     IN
     IF e.node \notin DOMAIN og \/ e.index >= Len(og[e.node])
     THEN \* output_grads[e.node.get()] inserts an empty vector when the node was
          \* never visited; [e.index] then refers past its end
          /\ output_grads' = [output_grads EXCEPT ![r] =
               IF e.node \in DOMAIN og THEN og ELSE og @@ (e.node :> <<>>)]
          /\ ub' = [ub EXCEPT ![r] = TRUE]
          /\ \E ub_out \in UBOutcomes :
               IF ub_out = "crash"
               THEN /\ Fail(r, "crash: read past the end of output_grads[node]")
                    /\ UNCHANGED <<outputs, idx>>
               ELSE /\ outputs' = [outputs EXCEPT ![r] = Append(@, WildEntry)]
                    /\ idx' = [idx EXCEPT ![r] = @ + 1]
                    /\ UNCHANGED <<pc, err>>
          /\ UNCHANGED <<nodes, agg_calls>>
     ELSE
       LET entry == og[e.node][e.index + 1]
           fresh == entry.sum.node = Null
           a == agg_fun(nodes, r, entry.grads)
           sum == IF fresh THEN a.ret ELSE entry.sum
       IN
       /\ nodes' = IF fresh THEN a.heap ELSE nodes
       /\ agg_calls' = [agg_calls EXCEPT ![r] =
            IF fresh
            THEN Append(@, [slot |-> <<e.node, e.index>>, by |-> "assembler",
                            v |-> entry.grads, ret |-> a.ret,
                            created |-> DOMAIN a.heap \ DOMAIN nodes])
            ELSE @]
       /\ output_grads' = [output_grads EXCEPT ![r][e.node][e.index + 1] =
            [sum |-> Emplaced(sum), grads |-> IF fresh THEN a.v ELSE entry.grads]]
       /\ outputs' = [outputs EXCEPT ![r] = Append(@, sum)]
       /\ idx' = [idx EXCEPT ![r] = @ + 1]
       /\ UNCHANGED <<pc, err, ub>>
  /\ UNCHANGED <<attrs, mirror_fun, topo_order, mirror_map, fgrad_calls, mirror_calls>>

\* line 130: return ret
Return(r) ==
  /\ pc[r] = "assemble"
  /\ idx[r] = Len(xs)
  /\ pc' = [pc EXCEPT ![r] = "done"]
  /\ UNCHANGED <<nodes, attrs, mirror_fun, idx, topo_order, output_grads, mirror_map,
                 outputs, err, fgrad_calls, agg_calls, mirror_calls, ub>>

Step(r) ==
  \/ CheckAttrs(r)
  \/ VisitNode(r)
  \/ CheckSizes(r)
  \/ SeedStep(r)
  \/ EnterMirror(r)
  \/ MirrorStep(r)
  \/ EnterBackward(r)
  \/ BackwardStep(r)
  \/ EnterAssemble(r)
  \/ AssembleStep(r)
  \/ Return(r)

Finished(r) == pc[r] \in {"done", "failed"}

(***************************************************************************)
(* Spec: one invocation of the pass.                                       *)
(***************************************************************************)
Next == Step(1)

Spec == Init /\ [][Next]_vars

(***************************************************************************)
(* SpecPair: two invocations, one after the other, on the same source      *)
(* graph and the same required attributes; grad_mirror_fun may differ.     *)
(***************************************************************************)
InitPair ==
  /\ nodes \in Graphs
  /\ \E ys0 \in SeqsUpTo(YCand(nodes), MaxPairLen), xs0 \in SeqsUpTo(XCand(nodes), MaxPairLen) :
       attrs = Bundle(Required, ys0, Len(ys0), xs0)
  /\ \E m \in MirrorFuns : mirror_fun \in {[r \in Runs |-> m], (1 :> m) @@ (2 :> "none")}
  /\ InitRun

NextPair == Step(1) \/ (Finished(1) /\ Step(2))

SpecPair == InitPair /\ [][NextPair]_vars

(***************************************************************************)
(* Vocabulary of the properties.                                           *)
(***************************************************************************)
SlotOf(e) == <<e.node, e.index>>

\* the positions of the aggregator log of run r that aggregate slot s
AggsOf(r, s) == {j \in 1..Len(agg_calls[r]) : agg_calls[r][j].slot = s}

\* the slot's aggregated gradient: what its first aggregation returned
FirstAgg(r, s) == agg_calls[r][CHOOSE j \in AggsOf(r, s) : \A k \in AggsOf(r, s) : j <= k]

IsZeroRef(e) ==
  /\ e.node \in DOMAIN nodes
  /\ e.index = 0
  /\ nodes[e.node].op = "__zero__"
  /\ nodes[e.node].inputs = <<>>

\* the seed a slot holds when the traversal starts: that of its last position in grad_ys
SeedPart(s) ==
  LET at == {i \in 1..Len(ys) : SlotOf(ys[i]) = s /\ i <= Len(ys_out_grad)} IN
  IF at = {} THEN <<>> ELSE <<ys_out_grad[CHOOSE i \in at : \A k \in at : k <= i]>>

\* the input positions of node n that reference slot s, in order
RECURSIVE EdgesTo(_, _, _)
EdgesTo(n, s, j) ==
  IF j > Len(nodes[n].inputs) THEN <<>>
  ELSE (IF SlotOf(nodes[n].inputs[j]) = s THEN <<j>> ELSE <<>>) \o EdgesTo(n, s, j + 1)

\* what the scatter loop appended for input position j after gradient call c
Pushed(c, j) == IF j <= Len(c.ret) THEN c.ret[j] ELSE WildEntry

\* the contributions to slot s of the gradient calls j, j+1, ... of run r, in order
RECURSIVE Contribs(_, _, _)
Contribs(r, s, j) ==
  IF j > Len(fgrad_calls[r]) THEN <<>>
  ELSE LET c == fgrad_calls[r][j]
           at == EdgesTo(c.orig, s, 1)
       IN [t \in 1..Len(at) |-> Pushed(c, at[t])] \o Contribs(r, s, j + 1)

\* the number of input edges that reference slot s from the non-variable nodes
\* among topo_order[j..]
RECURSIVE EdgeCount(_, _, _)
EdgeCount(r, s, j) ==
  IF j > Len(topo_order[r]) THEN 0
  ELSE (IF is_variable(nodes, topo_order[r][j]) THEN 0
        ELSE Len(EdgesTo(topo_order[r][j], s, 1))) + EdgeCount(r, s, j + 1)

\* run r has read nothing out of bounds, and every gradient function it called
\* returned one entry per input of the node
ContractKept(r) ==
  /\ ~ub[r]
  /\ \A j \in 1..Len(fgrad_calls[r]) :
       Len(fgrad_calls[r][j].ret) = Len(nodes[fgrad_calls[r][j].orig].inputs)

(***************************************************************************)
(* C1.  Whenever Gradient completes, ret.outputs has as many entries as    *)
(* grad_xs, and the entry at position i is the aggregated gradient of the  *)
(* slot grad_xs[i] names, also when two positions name the same slot.      *)
(* Stated for the runs in which nothing else has gone wrong.               *)
(***************************************************************************)
C1_OutputsCarrySlotGradient ==
  \A r \in Runs :
    (pc[r] = "done" /\ ContractKept(r)) =>
      /\ Len(outputs[r]) = Len(xs)
      /\ \A i \in 1..Len(xs) :
           /\ AggsOf(r, SlotOf(xs[i])) # {}
           /\ outputs[r][i] = FirstAgg(r, SlotOf(xs[i])).ret

(***************************************************************************)
(* C2.  A grad_xs entry whose node the visitor never reached does not make *)
(* the run fail, and the output at its position is a reference to a fresh  *)
(* __zero__ node.                                                          *)
(***************************************************************************)
C2_UnreachedYieldsZero ==
  \A r \in Runs :
    /\ err[r] # "crash: read past the end of output_grads[node]"
    /\ \A i \in 1..Len(outputs[r]) :
         xs[i].node \notin Range(topo_order[r]) => IsZeroRef(outputs[r][i])

(***************************************************************************)
(* C3.  Over one run the aggregator is applied to each pending slot at     *)
(* most once, by the traversal or by the output assembler.  Stated for the *)
(* runs in which nothing else has gone wrong.                              *)
(***************************************************************************)
C3_AggregatedAtMostOnce ==
  \A r \in Runs : \A j, k \in 1..Len(agg_calls[r]) :
    (ContractKept(r) /\ j # k) => agg_calls[r][j].slot # agg_calls[r][k].slot

(***************************************************************************)
(* C4.  Whenever the aggregator is applied to a slot, the list it is given *)
(* is the slot's seed (if it is in grad_ys) followed by exactly one entry  *)
(* for every input edge that references the slot from a non-variable node  *)
(* of the topological order, in the order the consumers were processed.    *)
(* Stated for the runs in which nothing else has gone wrong.               *)
(***************************************************************************)
C4_AggregationSeesEveryContribution ==
  \A r \in Runs : \A j \in 1..Len(agg_calls[r]) :
    LET a == agg_calls[r][j] IN
    ContractKept(r) =>
    /\ a.v = SeedPart(a.slot) \o Contribs(r, a.slot, 1)
    /\ Len(Contribs(r, a.slot, 1)) = EdgeCount(r, a.slot, 1)

\* the same for every run, but for the first aggregation of each slot only
ScatterAccumulatesUntilFirstAggregation ==
  \A r \in Runs : \A j \in 1..Len(agg_calls[r]) :
    LET a == agg_calls[r][j] IN
    (\A k \in AggsOf(r, a.slot) : j <= k) =>
      /\ a.v = SeedPart(a.slot) \o Contribs(r, a.slot, 1)
      /\ Len(Contribs(r, a.slot, 1)) = EdgeCount(r, a.slot, 1)

(***************************************************************************)
(* C5.  A gradient function that returns a list whose length differs from  *)
(* the number of inputs of the node makes the run fail.                    *)
(***************************************************************************)
C5_MismatchIsFatal ==
  \A r \in Runs : \A j \in 1..Len(fgrad_calls[r]) :
    LET c == fgrad_calls[r][j] IN
    Len(c.ret) # Len(nodes[c.orig].inputs) => pc[r] = "failed"

(***************************************************************************)
(* C6.  On a precondition violation (a required attribute missing, or      *)
(* grad_ys and grad_ys_out_grad of different lengths) Gradient fails: it   *)
(* never gets past the size check, returns no graph and has invoked no     *)
(* gradient function, aggregator or mirror predicate; when an attribute is *)
(* missing it fails before a node is visited or a slot is allocated.       *)
(***************************************************************************)
PreconditionViolated ==
  \/ ~(Required \subseteq attrs.keys)
  \/ Len(ys) # Len(ys_out_grad)

C6_PreconditionFailure ==
  \A r \in Runs :
    PreconditionViolated =>
      /\ pc[r] \in {"start", "dfs", "failed"}
      /\ pc[r] = "failed" =>
           err[r] \in {"grad_ys", "grad_ys_out_grad", "grad_xs",
                       "ys.size() == ys_out_grad.size()"}
      /\ outputs[r] = <<>>
      /\ fgrad_calls[r] = <<>> /\ agg_calls[r] = <<>> /\ mirror_calls[r] = <<>>
      /\ {id \in DOMAIN nodes : id[1] = r} = {}
      /\ ~(Required \subseteq attrs.keys) =>
           /\ pc[r] \in {"start", "failed"}
           /\ topo_order[r] = <<>>
           /\ output_grads[r] = EmptyMap

C6_Witness ==
  /\ pc[1] = "failed"
  /\ err[1] = "ys.size() == ys_out_grad.size()"
  /\ Len(topo_order[1]) > 1

(***************************************************************************)
(* C7.  The backward traversal never gets past a non-variable node whose   *)
(* operator registers no gradient function: the run fails at that node,    *)
(* with nothing scattered for it, no earlier node of the topological order *)
(* processed, no output assembled, and no step left to take.               *)
(***************************************************************************)
Differentiable(n) == is_variable(nodes, n) \/ nodes[n].op \in RegisteredOps

C7_UnregisteredGradientFails ==
  \A r \in Runs :
    /\ pc[r] = "backward" =>
         \A j \in (idx[r] + 1)..Len(topo_order[r]) : Differentiable(topo_order[r][j])
    /\ pc[r] \in {"assemble", "done"} =>
         \A j \in 1..Len(topo_order[r]) : Differentiable(topo_order[r][j])
    /\ err[r] = "FGradient" =>
         LET ptr == topo_order[r][idx[r]] IN
         /\ pc[r] = "failed"
         /\ ~Differentiable(ptr)
         /\ \A c \in Range(fgrad_calls[r]) :
              \E j \in (idx[r] + 1)..Len(topo_order[r]) : c.orig = topo_order[r][j]
         /\ \A a \in Range(agg_calls[r]) :
              \E j \in idx[r]..Len(topo_order[r]) : a.slot[1] = topo_order[r][j]
         /\ \A i \in 1..Len(nodes[ptr].inputs) :
              LET e == nodes[ptr].inputs[i] IN
              output_grads[r][e.node][e.index + 1].grads =
                SeedPart(SlotOf(e)) \o Contribs(r, SlotOf(e), 1)
         /\ outputs[r] = <<>>
         /\ ~ENABLED Step(r)

C7_Witness ==
  /\ pc[1] = "failed"
  /\ err[1] = "FGradient"
  /\ idx[1] > 1
  /\ fgrad_calls[1] # <<>>

(***************************************************************************)
(* C8.  Every application of the default aggregator: an empty list gives   *)
(* output 0 of a fresh __zero__ node without inputs, a single partial is   *)
(* returned unchanged and no node is created, two or more partials give    *)
(* output 0 of a fresh __ewise_sum__ node whose inputs are the partials in *)
(* the given order.                                                        *)
(***************************************************************************)
C8_DefaultAggregator ==
  \A r \in Runs : \A j \in 1..Len(agg_calls[r]) :
    LET a == agg_calls[r][j] IN
    /\ Len(a.v) = 0 =>
         /\ a.created = {a.ret.node}
         /\ a.ret = NodeEntry(a.ret.node, 0, 0)
         /\ IsZeroRef(a.ret)
    /\ Len(a.v) = 1 =>
         /\ a.ret = a.v[1]
         /\ a.created = {}
    /\ Len(a.v) >= 2 =>
         /\ a.created = {a.ret.node}
         /\ a.ret = NodeEntry(a.ret.node, 0, 0)
         /\ nodes[a.ret.node].op = "__ewise_sum__"
         /\ nodes[a.ret.node].inputs = a.v

C8_Witness ==
  \E i, j, k \in 1..Len(agg_calls[1]) :
    /\ Len(agg_calls[1][i].v) = 0
    /\ Len(agg_calls[1][j].v) = 1
    /\ Len(agg_calls[1][k].v) >= 2

(***************************************************************************)
(* C9.  No step of Gradient changes a node that exists before the step:    *)
(* every node of the source graph (and every node created earlier) keeps   *)
(* its operator, name, inputs and control dependencies; the heap only      *)
(* grows.                                                                  *)
(***************************************************************************)
C9_SourceNeverMutated ==
  [][\A id \in DOMAIN nodes : id \in DOMAIN nodes' /\ nodes'[id] = nodes[id]]_vars

C9_Witness ==
  /\ pc[1] = "done"
  /\ \E n \in DOMAIN mirror_map[1] : mirror_map[1][n] # n

(***************************************************************************)
(* Comparing two runs: the nodes run r created, with r's identities        *)
(* renamed to a common owner.                                              *)
(***************************************************************************)
CanonPtr(r, n) == IF n[1] = r THEN <<-1, n[2]>> ELSE n

CanonEntry(r, e) == [e EXCEPT !.node = CanonPtr(r, @)]

CanonEntries(r, v) == [i \in 1..Len(v) |-> CanonEntry(r, v[i])]

CanonNode(r, nd) ==
  [nd EXCEPT !.inputs = CanonEntries(r, @),
             !.control_deps = [i \in 1..Len(@) |-> CanonPtr(r, @[i])]]

CreatedBy(r) ==
  LET mine == {id \in DOMAIN nodes : id[1] = r} IN
  [k \in 1..Cardinality(mine) |-> CanonNode(r, nodes[<<r, k>>])]

CanonCalls(r) ==
  [j \in 1..Len(fgrad_calls[r]) |->
     [node |-> CanonPtr(r, fgrad_calls[r][j].node),
      orig |-> fgrad_calls[r][j].orig,
      out_grads |-> CanonEntries(r, fgrad_calls[r][j].out_grads)]]

SameResult ==
  /\ pc[1] = pc[2]
  /\ err[1] = err[2]
  /\ CanonCalls(1) = CanonCalls(2)
  /\ CanonEntries(1, outputs[1]) = CanonEntries(2, outputs[2])
  /\ CreatedBy(1) = CreatedBy(2)

(***************************************************************************)
(* C10.  A run with a mirror predicate that is false for every node and a  *)
(* run with no mirror predicate, on the same graph and attributes, end the *)
(* same way: every gradient function is invoked with the same original     *)
(* node and the same output gradients, and the graphs are identical.       *)
(***************************************************************************)
C10_MirrorNeutral ==
  (mirror_fun[1] = "never" /\ mirror_fun[2] = "none" /\ Finished(1) /\ Finished(2)) =>
    /\ SameResult
    /\ \A j \in 1..Len(fgrad_calls[1]) : fgrad_calls[1][j].node = fgrad_calls[1][j].orig

\* the same, for the pairs of runs in which neither run read out of bounds
MirrorNeutralWithoutUB ==
  (mirror_fun[1] = "never" /\ mirror_fun[2] = "none" /\ Finished(1) /\ Finished(2)
     /\ ~ub[1] /\ ~ub[2]) =>
    /\ SameResult
    /\ \A j \in 1..Len(fgrad_calls[1]) : fgrad_calls[1][j].node = fgrad_calls[1][j].orig

(***************************************************************************)
(* C11.  Two runs on the same source graph and the same attribute bundle   *)
(* (same mirror predicate) visit the nodes in the same order, invoke the   *)
(* mirror predicate, the aggregator and the gradient functions with the    *)
(* same arguments in the same order, and end with the same outputs and the *)
(* same created nodes, up to the identity of the created nodes.            *)
(***************************************************************************)
CanonAggs(r) ==
  [j \in 1..Len(agg_calls[r]) |->
     [slot |-> agg_calls[r][j].slot,
      by |-> agg_calls[r][j].by,
      v |-> CanonEntries(r, agg_calls[r][j].v),
      ret |-> CanonEntry(r, agg_calls[r][j].ret)]]

CanonMirrorMap(r) == [n \in DOMAIN mirror_map[r] |-> CanonPtr(r, mirror_map[r][n])]

SameRun ==
  /\ topo_order[1] = topo_order[2]
  /\ mirror_calls[1] = mirror_calls[2]
  /\ CanonMirrorMap(1) = CanonMirrorMap(2)
  /\ CanonAggs(1) = CanonAggs(2)
  /\ SameResult

C11_Deterministic ==
  (mirror_fun[1] = mirror_fun[2] /\ Finished(1) /\ Finished(2)) => SameRun

\* the same, for the pairs of runs in which neither run read out of bounds
DeterministicWithoutUB ==
  (mirror_fun[1] = mirror_fun[2] /\ Finished(1) /\ Finished(2) /\ ~ub[1] /\ ~ub[2]) => SameRun

(***************************************************************************)
(* C12.  For a chain x -> f -> y (x a variable, the only input of f, and   *)
(* referenced by nothing else that is visited), the gradient of y with     *)
(* respect to x is the single output, and it is exactly the entry f's      *)
(* gradient function returned for input slot 0 when called once with the   *)
(* seed as the output gradient of y; the run creates no __zero__ and no    *)
(* __ewise_sum__ node.                                                     *)
(***************************************************************************)
ChainRequest(r) ==
  /\ Len(ys) = 1 /\ Len(ys_out_grad) = 1 /\ Len(xs) = 1
  /\ ~is_variable(nodes, ys[1].node)
  /\ is_variable(nodes, xs[1].node)
  /\ nodes[ys[1].node].inputs = <<xs[1]>>
  /\ nodes[ys[1].node].control_deps = <<>>
  /\ nodes[ys[1].node].num_outputs = 1
  /\ topo_order[r] = <<xs[1].node, ys[1].node>>

C12_SingleConsumerIdentity ==
  \A r \in Runs :
    (pc[r] = "done" /\ ChainRequest(r)) =>
      /\ Len(fgrad_calls[r]) = 1
      /\ fgrad_calls[r][1].orig = ys[1].node
      /\ fgrad_calls[r][1].out_grads = <<ys_out_grad[1]>>
      /\ Len(fgrad_calls[r][1].ret) >= 1
      /\ outputs[r] = <<fgrad_calls[r][1].ret[1]>>
      /\ \A id \in DOMAIN nodes :
           id[1] = r => nodes[id].op \notin {"__zero__", "__ewise_sum__"}

C12_Witness ==
  /\ \A id \in DOMAIN Chain : id \in DOMAIN nodes /\ nodes[id] = Chain[id]
  /\ \A id \in DOMAIN nodes : id[1] = 0 => id \in DOMAIN Chain
  /\ pc[1] = "done"
  /\ ChainRequest(1)
  /\ Len(fgrad_calls[1]) = 1
  /\ outputs[1] = <<fgrad_calls[1][1].ret[1]>>

(***************************************************************************)
(* C13.  After the topological visit, topo_order holds every node that is  *)
(* reachable from grad_ys through input and control-dependency edges, each *)
(* exactly once and after the nodes of all its inputs and control          *)
(* dependencies; output_grads has, for exactly these nodes, num_outputs    *)
(* slots, each with a null sum and no partial.                             *)
(***************************************************************************)
\* the nodes reachable from the set S through input and control-dependency edges
RECURSIVE Reach(_)
Reach(S) ==
  LET T == S \cup UNION {Range(Children(nodes, n)) : n \in S} IN
  IF T = S THEN S ELSE Reach(T)

Heads == {ys[i].node : i \in 1..Len(ys)}

\* the visit of run r is over
Visited(r) ==
  \/ pc[r] = "dfs" /\ Len(topo_order[r]) = Len(DFSVisit(nodes, ys))
  \/ pc[r] \in {"seed", "mirror", "backward", "assemble", "done"}
  \/ pc[r] = "failed" /\ err[r] \notin {"grad_ys", "grad_ys_out_grad", "grad_xs"}

\* the visit of run r is over and nothing has been done since
JustVisited(r) ==
  \/ pc[r] = "dfs" /\ Len(topo_order[r]) = Len(DFSVisit(nodes, ys))
  \/ pc[r] = "seed" /\ idx[r] = 0
  \/ pc[r] = "failed" /\ err[r] = "ys.size() == ys_out_grad.size()"

PositionOf(t, n) == CHOOSE i \in 1..Len(t) : t[i] = n

C13_VisitPostcondition ==
  \A r \in Runs :
    /\ Visited(r) =>
         LET t == topo_order[r] IN
         /\ Range(t) = Reach(Heads)
         /\ \A i, j \in 1..Len(t) : i # j => t[i] # t[j]
         /\ \A i \in 1..Len(t) : \A c \in Range(Children(nodes, t[i])) :
              c \in Range(t) /\ PositionOf(t, c) < i
    /\ JustVisited(r) =>
         /\ DOMAIN output_grads[r] = Reach(Heads)
         /\ \A n \in DOMAIN output_grads[r] :
              /\ Len(output_grads[r][n]) = nodes[n].num_outputs
              /\ \A k \in 1..Len(output_grads[r][n]) :
                   /\ output_grads[r][n][k].sum.node = Null
                   /\ output_grads[r][n][k].grads = <<>>

\* the visit is over on the diamond: a control dependency was followed, a
\* shared input was visited once, and a two-headed request was served
C13_Witness ==
  /\ pc[1] = "seed" /\ idx[1] = 0
  /\ Len(ys) = 2
  /\ Len(topo_order[1]) = 5
  /\ \E n \in Range(topo_order[1]) : nodes[n].control_deps # <<>>

(***************************************************************************)
(* C14.  With a mirror predicate supplied no lookup in mirror_map misses:  *)
(* when the planner is about to process a node, the map holds exactly the  *)
(* nodes processed so far and among them every node the node's inputs and  *)
(* control dependencies reference; when the backward traversal runs the    *)
(* map has an entry for every node of the topological order; and no run    *)
(* fails in mirror_map.at.                                                 *)
(***************************************************************************)
C14_MirrorLookupsNeverMiss ==
  \A r \in Runs :
    /\ err[r] # "mirror_map.at"
    /\ pc[r] = "mirror" =>
         /\ DOMAIN mirror_map[r] = {topo_order[r][i] : i \in 1..idx[r]}
         /\ idx[r] < Len(topo_order[r]) =>
              Range(Children(nodes, topo_order[r][idx[r] + 1])) \subseteq DOMAIN mirror_map[r]
    /\ (mirror_fun[r] # "none" /\ pc[r] \in {"backward", "assemble", "done"}) =>
         DOMAIN mirror_map[r] = Range(topo_order[r])

\* a mirrored run is over in which a node with a control dependency was copied
\* and gradient functions were looked up through the map
C14_Witness ==
  /\ pc[1] = "done"
  /\ mirror_fun[1] = "ops"
  /\ Len(fgrad_calls[1]) >= 2
  /\ \E n \in DOMAIN mirror_map[1] :
       /\ mirror_map[1][n] # n
       /\ nodes[n].control_deps # <<>>
       /\ nodes[mirror_map[1][n]].control_deps = nodes[n].control_deps

(***************************************************************************)
(* C15.  The mirror planner maps every node for which the predicate is     *)
(* false to itself, and every node for which it is true to a node of its   *)
(* own, created by the run, with the same operator, the original name      *)
(* followed by "_mirror", and input and control-dependency lists of the    *)
(* same length and order in which every referenced node is replaced by its *)
(* image in the map, output indices and versions unchanged.                *)
(***************************************************************************)
C15_MirrorPlanner ==
  \A r \in Runs : \A n \in DOMAIN mirror_map[r] :
    LET m == mirror_map[r]
        c == m[n]
    IN
    IF ~mirror_fun_call(nodes, mirror_fun[r], n) THEN c = n
    ELSE
      /\ c[1] = r /\ c \in DOMAIN nodes
      /\ \A n2 \in DOMAIN m : n2 # n => m[n2] # c
      /\ nodes[c].op = nodes[n].op
      /\ nodes[c].name = nodes[n].name \o "_mirror"
      /\ nodes[c].num_outputs = nodes[n].num_outputs
      /\ Len(nodes[c].inputs) = Len(nodes[n].inputs)
      /\ \A i \in 1..Len(nodes[n].inputs) :
           /\ nodes[n].inputs[i].node \in DOMAIN m
           /\ nodes[c].inputs[i] =
                NodeEntry(m[nodes[n].inputs[i].node], nodes[n].inputs[i].index,
                          nodes[n].inputs[i].version)
      /\ Len(nodes[c].control_deps) = Len(nodes[n].control_deps)
      /\ \A i \in 1..Len(nodes[n].control_deps) :
           /\ nodes[n].control_deps[i] \in DOMAIN m
           /\ nodes[c].control_deps[i] = m[nodes[n].control_deps[i]]

\* the planner is done with a graph in which a copy consumes another copy at a
\* non-zero output index, and in which some node is mapped to itself
C15_Witness ==
  /\ pc[1] = "backward"
  /\ idx[1] = Len(topo_order[1])
  /\ \E n \in DOMAIN mirror_map[1] : mirror_map[1][n] = n
  /\ \E n \in DOMAIN mirror_map[1] : \E i \in 1..Len(nodes[n].inputs) :
       /\ mirror_map[1][n] # n
       /\ nodes[mirror_map[1][n]].inputs[i].node # nodes[n].inputs[i].node
       /\ nodes[mirror_map[1][n]].inputs[i].index = 1

(***************************************************************************)
(* C16.  With a mirror predicate the gradient function of a node is called *)
(* with the node's image in the mirror map, without one with the node      *)
(* itself.  Either way what it returns is scattered, position by position, *)
(* into the pending slots of the input entries of the ORIGINAL node: every *)
(* slot holds (or held, when it was first aggregated) its seed followed by *)
(* the entries returned for the original input positions that reference    *)
(* it, and no node created by the run ever has a slot.                     *)
(***************************************************************************)
C16_ScatterIntoOriginalSlots ==
  \A r \in Runs :
    /\ \A j \in 1..Len(fgrad_calls[r]) :
         LET c == fgrad_calls[r][j] IN
         /\ c.orig \in Range(topo_order[r])
         /\ c.node = IF mirror_fun[r] = "none" THEN c.orig ELSE mirror_map[r][c.orig]
    /\ \A n \in DOMAIN output_grads[r] : n[1] = 0
    /\ (pc[r] \in {"backward", "assemble", "done"} \/ err[r] = "FGradient") =>
         \A n \in DOMAIN output_grads[r] : \A k \in 1..Len(output_grads[r][n]) :
           LET s == <<n, k - 1>>
               held == IF AggsOf(r, s) = {} THEN output_grads[r][n][k].grads
                       ELSE FirstAgg(r, s).v
           IN held = SeedPart(s) \o Contribs(r, s, 1)

\* a mirrored run is over: gradient functions were called with copies, and two
\* of the returned entries met in one slot of an original node
C16_Witness ==
  /\ pc[1] = "done"
  /\ \E j \in 1..Len(fgrad_calls[1]) : fgrad_calls[1][j].node[1] = 1
  /\ \E j \in 1..Len(agg_calls[1]) :
       /\ Len(agg_calls[1][j].v) = 2
       /\ \A i \in 1..2 : nodes[agg_calls[1][j].v[i].node].op = "_backward"

(***************************************************************************)
(* C17.  The gradient function is invoked exactly once for every           *)
(* non-variable node of the topological order, in strict reverse           *)
(* topological order, whether or not a grad_xs entry is reachable from the *)
(* node, and never for a variable; the traversal aggregates no slot of a   *)
(* variable, such a slot is aggregated only by the output assembler and    *)
(* only when grad_xs names it.  Stated for every point of the traversal    *)
(* and for the completed run.                                              *)
(***************************************************************************)
\* the non-variable nodes among t[lo..hi], from t[hi] down to t[lo]
RECURSIVE RevNonVars(_, _, _)
RevNonVars(t, hi, lo) ==
  IF hi < lo THEN <<>>
  ELSE (IF is_variable(nodes, t[hi]) THEN <<>> ELSE <<t[hi]>>) \o RevNonVars(t, hi - 1, lo)

Origs(r) == [j \in 1..Len(fgrad_calls[r]) |-> fgrad_calls[r][j].orig]

C17_OncePerOperatorInReverse ==
  \A r \in Runs :
    /\ pc[r] = "backward" =>
         Origs(r) = RevNonVars(topo_order[r], Len(topo_order[r]), idx[r] + 1)
    /\ pc[r] \in {"assemble", "done"} =>
         Origs(r) = RevNonVars(topo_order[r], Len(topo_order[r]), 1)
    /\ \A j, k \in 1..Len(fgrad_calls[r]) : j # k => Origs(r)[j] # Origs(r)[k]
    /\ \A j \in 1..Len(fgrad_calls[r]) : ~is_variable(nodes, Origs(r)[j])
    /\ \A j \in 1..Len(agg_calls[r]) :
         LET a == agg_calls[r][j] IN
         is_variable(nodes, a.slot[1]) =>
           /\ a.by = "assembler"
           /\ pc[r] # "backward"
           /\ \E i \in 1..Len(xs) : SlotOf(xs[i]) = a.slot

\* a run is over in which three operators were differentiated although the
\* requested entry cannot be reached from one of them
C17_Witness ==
  /\ pc[1] = "done"
  /\ ~ub[1]
  /\ Len(fgrad_calls[1]) = 3
  /\ Len(xs) = 1
  /\ \E j \in 1..3 :
       xs[1].node \notin Range(DFSVisit(nodes, <<NodeEntry(fgrad_calls[1][j].orig, 0, 0)>>))

(***************************************************************************)
(* C18.  No contribution arrives late.  When the traversal is about to     *)
(* aggregate the slots of a node, every non-variable node of the           *)
(* topological order that consumes an output of the node has already been  *)
(* processed; the list handed to the first aggregation of a slot has one   *)
(* entry for every such consumer edge; and once a slot has been aggregated *)
(* its pending list is what the aggregation left of it, nothing having     *)
(* been appended since.                                                    *)
(***************************************************************************)
\* what an aggregation leaves of the list v it was handed
Residue(v) == IF Len(v) = 1 THEN <<MovedFrom(v[1])>> ELSE <<>>

Consumes(c, n) == \E i \in 1..Len(nodes[c].inputs) : nodes[c].inputs[i].node = n

C18_NoLateContribution ==
  \A r \in Runs :
    /\ (pc[r] = "backward" /\ idx[r] >= 1) =>
         \A j \in 1..Len(topo_order[r]) :
           (~is_variable(nodes, topo_order[r][j])
              /\ Consumes(topo_order[r][j], topo_order[r][idx[r]])) =>
             /\ j > idx[r]
             /\ \E k \in 1..Len(fgrad_calls[r]) : fgrad_calls[r][k].orig = topo_order[r][j]
    /\ \A j \in 1..Len(agg_calls[r]) :
         LET a == agg_calls[r][j] IN
         (\A k \in AggsOf(r, a.slot) : j <= k) =>
           Len(a.v) = Len(SeedPart(a.slot)) + EdgeCount(r, a.slot, 1)
    /\ \A n \in DOMAIN output_grads[r] : \A k \in 1..Len(output_grads[r][n]) :
         AggsOf(r, <<n, k - 1>>) # {} =>
           output_grads[r][n][k].grads = Residue(FirstAgg(r, <<n, k - 1>>).v)

\* the traversal has aggregated a slot that held two partials, and has
\* processed at least one more node since
C18_Witness ==
  /\ pc[1] = "backward"
  /\ \E j \in 1..Len(agg_calls[1]) :
       /\ agg_calls[1][j].by = "traversal"
       /\ Len(agg_calls[1][j].v) = 2
       /\ \E i \in (idx[1] + 2)..Len(topo_order[1]) : agg_calls[1][j].slot[1] = topo_order[1][i]

(***************************************************************************)
(* C19.  Seeds are assigned, not accumulated.  Before the backward         *)
(* traversal starts, the slot of each grad_ys entry holds exactly one      *)
(* partial, grad_ys_out_grad[i] for the LAST position i of grad_ys that    *)
(* names the slot, and every other slot holds none; no slot has been       *)
(* aggregated.  Stated for every point of the seed loop (with the          *)
(* positions assigned so far) and for every state up to the first          *)
(* iteration of the traversal.                                             *)
(***************************************************************************)
\* how many positions of grad_ys run r has seeded
SeededUpTo(r) == IF pc[r] = "seed" THEN idx[r] ELSE Len(ys)

BeforeTraversal(r) ==
  \/ pc[r] \in {"seed", "mirror"}
  \/ pc[r] = "backward" /\ idx[r] = Len(topo_order[r])

C19_SeedsAssigned ==
  \A r \in Runs :
    BeforeTraversal(r) =>
      \A n \in DOMAIN output_grads[r] : \A k \in 1..Len(output_grads[r][n]) :
        LET at == {i \in 1..SeededUpTo(r) : SlotOf(ys[i]) = <<n, k - 1>>}
            entry == output_grads[r][n][k]
        IN
        /\ entry.sum.node = Null
        /\ IF at = {} THEN entry.grads = <<>>
           ELSE entry.grads = <<ys_out_grad[CHOOSE i \in at : \A j \in at : j <= i]>>

\* the traversal is about to start after the same entry was seeded twice: its
\* slot holds the second seed only
C19_Witness ==
  /\ pc[1] = "backward"
  /\ idx[1] = Len(topo_order[1])
  /\ Len(ys) = 2
  /\ ys[1] = ys[2]
  /\ ys_out_grad[1] # ys_out_grad[2]
  /\ output_grads[1][ys[1].node][ys[1].index + 1].grads = <<ys_out_grad[2]>>

====
